---- MODULE Spec2Model ----
(***************************************************************************)
(* A model of lab_8_llm/main.py: the dataset importer, the preprocessor,   *)
(* the dataset adapter and the single-sample inference wrapper.            *)
(*                                                                         *)
(* Text is a finite sequence of one-character strings.  A table cell is a  *)
(* record [na, s]: either the missing value NA or the text s.  A table is  *)
(* a record [kind, columns, index, rows]: the column labels in order, the  *)
(* row labels in order, and the rows by position, each row a function from *)
(* the column labels to cells.                                             *)
(*                                                                         *)
(* A call ends either by returning a value or by raising an exception; the *)
(* report_time decorator hands both through unchanged.  The dataset hub,   *)
(* the tokenizer and the language model are outside the program: each call *)
(* to them ends in one of the outcomes the code distinguishes.             *)
(***************************************************************************)
EXTENDS Integers, Sequences, FiniteSets, TLC

VARIABLES
    imp_raw_data,   \* RawDataImporter._raw_data
    imp_op,         \* the importer operation called last
    imp_env,        \* what the hub answered to the last obtain()
    imp_ret,        \* outcome of the last importer operation
    imp_fetches,    \* number of load_dataset calls made so far
    imp_calls,      \* number of obtain() calls made so far
    imp_last_ok,    \* table fetched by the last obtain() that returned normally
    p_raw_data,     \* RawDataPreprocessor._raw_data
    p_data,         \* RawDataPreprocessor._data
    p_op,           \* the preprocessor operation called last
    p_ret,          \* outcome of the last preprocessor operation
    p_raw0,         \* the RawTable the preprocessor was constructed with
    p_transforms,   \* number of transform() calls made so far
    p_first,        \* outcome of the first analyze() call
    p_first_at,     \* number of transform() calls made before it
    ds_data,        \* TaskDataset._data
    ds_op,          \* the dataset operation called last
    ds_arg,         \* its index argument
    ds_ret,         \* its outcome
    pl_sample,      \* the sample given to the last infer_sample()
    pl_env,         \* what tokenizer + model produced for it
    pl_ret          \* outcome of the last infer_sample()

imp_vars == <<imp_raw_data, imp_op, imp_env, imp_ret, imp_fetches, imp_calls, imp_last_ok>>
p_vars == <<p_raw_data, p_data, p_op, p_ret, p_raw0, p_transforms, p_first, p_first_at>>
ds_vars == <<ds_data, ds_op, ds_arg, ds_ret>>
pl_vars == <<pl_sample, pl_env, pl_ret>>
vars == <<imp_vars, p_vars, ds_vars, pl_vars>>

----------------------------------------------------------------------------
(* Bounds *)

MaxRows == 3        \* rows of a RawTable
MaxDsRows == 3      \* rows of a table handed to TaskDataset
MaxObtain == 3      \* obtain() calls in one behaviour
MaxTransforms == 2  \* transform() calls in one behaviour
MaxQuestion == 2    \* characters of a question
MaxDecoded == 4     \* characters of a decoded model output

----------------------------------------------------------------------------
(* Values *)

NA == [na |-> TRUE, s |-> <<>>]
Str(s) == [na |-> FALSE, s |-> s]
Num(n) == [na |-> FALSE, s |-> <<>>, n |-> n]
None == [kind |-> "None"]
DataFrame(columns, index, rows) ==
    [kind |-> "DataFrame", columns |-> columns, index |-> index, rows |-> rows]
isinstance_DataFrame(v) == v.kind = "DataFrame"

Range(f) == {f[i] : i \in DOMAIN f}
RangeIndex(n) == [i \in 1..n |-> i - 1]
SeqsUpTo(S, n) == UNION {[1..k -> S] : k \in 0..n}

Min(S) == CHOOSE m \in S : \A k \in S : m <= k
Max(S) == CHOOSE m \in S : \A k \in S : m >= k

\* Outcomes of a call: a returned value or a raised exception.
Returned(v) == [status |-> "returned", value |-> v]
Raised(e) == [status |-> "raised", value |-> e]
NotCalled == [status |-> "none", value |-> "none"]

----------------------------------------------------------------------------
(* Tables the model draws from *)

RawColumns == {"instruction", "input", "output", "text"}

\* Orders in which the hub may deliver the four columns.
ColumnOrders ==
    { <<"instruction", "input", "output", "text">>,
      <<"text", "output", "input", "instruction">>,
      <<"output", "instruction", "text", "input">> }

InstructionCells == {NA, Str(<<>>), Str(<<"a">>), Str(<<"a", "b">>)}
InputCells == {Str(<<>>), Str(<<"x">>)}
OutputCells == {Str(<<"y">>)}
TextCells == {Str(<<"t">>)}

RawRows ==
    { [c \in RawColumns |->
          CASE c = "instruction" -> i
            [] c = "input" -> n
            [] c = "output" -> o
            [] c = "text" -> t] :
      i \in InstructionCells, n \in InputCells, o \in OutputCells, t \in TextCells }

RawTables ==
    { DataFrame(cols, RangeIndex(Len(rows)), rows) :
      cols \in ColumnOrders, rows \in SeqsUpTo(RawRows, MaxRows) }

----------------------------------------------------------------------------
(* pandas operations used by the code *)

\* DataFrame.replace("", pd.NA): every cell holding the empty string becomes NA.
replace_empty_NA(df) ==
    [df EXCEPT !.rows =
        [i \in DOMAIN df.rows |->
            [c \in DOMAIN df.rows[i] |->
                IF df.rows[i][c] = Str(<<>>) THEN NA ELSE df.rows[i][c]]]]

RowHasNA(row) == \E c \in DOMAIN row : row[c].na

\* Positions of a sequence that satisfy Keep, in order.
RECURSIVE KeepPositions(_, _)
KeepPositions(n, keep) ==
    IF n = 0 THEN <<>>
    ELSE IF n \in keep THEN Append(KeepPositions(n - 1, keep), n)
         ELSE KeepPositions(n - 1, keep)

\* DataFrame.dropna().reset_index(): rows without a missing cell, relabelled.
\* (reset_index keeps the old labels as a new column "index".)
dropna_reset_index(df) ==
    LET keep == {i \in DOMAIN df.rows : ~RowHasNA(df.rows[i])}
        pos == KeepPositions(Len(df.rows), keep)
    IN  DataFrame(<<"index">> \o df.columns,
                  RangeIndex(Len(pos)),
                  [k \in DOMAIN pos |->
                      [c \in DOMAIN df.rows[pos[k]] \cup {"index"} |->
                          IF c = "index" THEN Num(df.index[pos[k]])
                          ELSE df.rows[pos[k]][c]]])

\* DataFrame.duplicated().sum(): rows equal to a row at an earlier position.
duplicated_sum(df) ==
    Cardinality({i \in DOMAIN df.rows : \E j \in 1..(i - 1) : df.rows[j] = df.rows[i]})

\* DataFrame.isna().sum().sum(): missing cells, column by column, summed.
isna_sum(df, c) == Cardinality({i \in DOMAIN df.rows : df.rows[i][c].na})

RECURSIVE isna_sum_upto(_, _)
isna_sum_upto(df, k) ==
    IF k = 0 THEN 0 ELSE isna_sum_upto(df, k - 1) + isna_sum(df, df.columns[k])

isna_sum_sum(df) == isna_sum_upto(df, Len(df.columns))

\* DataFrame.rename(columns=mapping): a new table; labels absent from the mapping stay.
rename_columns(df, old, new) ==
    LET to == [c \in Range(df.columns) |->
                  IF \E k \in DOMAIN old : old[k] = c
                  THEN new[CHOOSE k \in DOMAIN old : old[k] = c] ELSE c]
        from == [d \in Range(to) |-> CHOOSE c \in DOMAIN to : to[c] = d]
    IN  [df EXCEPT
            !.columns = [k \in DOMAIN df.columns |-> to[df.columns[k]]],
            !.rows = [i \in DOMAIN df.rows |-> [d \in DOMAIN from |-> df.rows[i][from[d]]]]]

\* DataFrame.drop(columns=labels): a new table without them (labels must exist).
drop_columns(df, labels) ==
    LET keep == {k \in DOMAIN df.columns : df.columns[k] \notin labels}
        pos == KeepPositions(Len(df.columns), keep)
    IN  [df EXCEPT
            !.columns = [k \in DOMAIN pos |-> df.columns[pos[k]]],
            !.rows = [i \in DOMAIN df.rows |->
                         [c \in Range(df.columns) \ labels |-> df.rows[i][c]]]]
----------------------------------------------------------------------------
(* RawDataPreprocessor *)

\* analyze(): the report, or the exception that leaves the method.
analyze(raw_data) ==
    LET empty_rows_free == dropna_reset_index(replace_empty_NA(raw_data))
        lens == {Len(empty_rows_free.rows[i]["instruction"].s) :
                    i \in DOMAIN empty_rows_free.rows}
    IN  IF "instruction" \notin Range(empty_rows_free.columns) THEN Raised("KeyError")
        ELSE IF empty_rows_free.rows = <<>> THEN Raised("ValueError")
        ELSE Returned(
            [dataset_number_of_samples |-> Len(raw_data.rows),
             dataset_columns |-> Len(raw_data.columns),
             dataset_duplicates |-> duplicated_sum(raw_data),
             dataset_empty_rows |-> isna_sum_sum(replace_empty_NA(raw_data)),
             dataset_sample_min_len |-> Min(lens),
             dataset_sample_max_len |-> Max(lens)])

\* A transform() that renames the stored raw table itself (rename(..., inplace=True)).
transform_inplace(self) ==
    LET renamed == rename_columns(self.raw_data,
                                  <<"instruction", "output">>, <<"question", "target">>)
    IN  IF {"input", "text"} \subseteq Range(renamed.columns)
        THEN [self |-> [raw_data |-> renamed,
                        data |-> drop_columns(renamed, {"input", "text"})],
              ret |-> Returned(None)]
        ELSE [self |-> [self EXCEPT !.raw_data = renamed], ret |-> Raised("KeyError")]

\* A transform() that works on the previous result once there is one.
transform_chained(self) ==
    LET source == IF isinstance_DataFrame(self.data) THEN self.data ELSE self.raw_data
        renamed == rename_columns(source,
                                  <<"instruction", "output">>, <<"question", "target">>)
    IN  IF {"input", "text"} \subseteq Range(renamed.columns)
        THEN [self |-> [self EXCEPT !.data = drop_columns(renamed, {"input", "text"})],
              ret |-> Returned(None)]
        ELSE [self |-> self, ret |-> Raised("KeyError")]

\* transform(): the object's fields afterwards, and how the call ended.
transform(self) ==
    LET renamed == rename_columns(self.raw_data,
                                  <<"instruction", "output">>, <<"question", "target">>)
    IN  IF {"input", "text"} \subseteq Range(renamed.columns)
        THEN [self |-> [self EXCEPT !.data = drop_columns(renamed, {"input", "text"})],
              ret |-> Returned(None)]
        ELSE [self |-> self, ret |-> Raised("KeyError")]

Preprocessor == [raw_data |-> p_raw_data, data |-> p_data]

Analyze ==
    /\ LET r == analyze(p_raw_data)
       IN  /\ p_ret' = r
           /\ p_first' = IF p_first.status = "none" THEN r ELSE p_first
    /\ p_first_at' = IF p_first.status = "none" THEN p_transforms ELSE p_first_at
    /\ p_op' = "analyze"
    /\ UNCHANGED <<p_raw_data, p_data, p_raw0, p_transforms>>
    /\ UNCHANGED <<imp_vars, ds_vars, pl_vars>>

Transform ==
    /\ p_transforms < MaxTransforms
    /\ p_transforms' = p_transforms + 1
    /\ LET r == transform(Preprocessor)
       IN  /\ p_raw_data' = r.self.raw_data
           /\ p_data' = r.self.data
           /\ p_ret' = r.ret
    /\ p_op' = "transform"
    /\ UNCHANGED <<p_raw0, p_first, p_first_at>>
    /\ UNCHANGED <<imp_vars, ds_vars, pl_vars>>

----------------------------------------------------------------------------
(* RawDataImporter *)

\* What load_dataset(...).to_pandas() may do: the fetch raises, or the conversion
\* yields a table, or it yields something that is not a table.
HubRows == RawRows
HubTables ==
    { DataFrame(<<"instruction", "input", "output", "text">>, RangeIndex(Len(rows)), rows) :
      rows \in SeqsUpTo(HubRows, 1) }
NotATable == [kind |-> "Iterator"]
HubAnswers ==
    {[fetch |-> "raises", value |-> None]}
        \cup {[fetch |-> "ok", value |-> v] : v \in HubTables \cup {NotATable}}

\* An obtain() that fetches a second time when the first fetch raises.
obtain_retrying(stored, answer) ==
    IF answer.fetch = "raises"
    THEN [raw_data |-> stored, ret |-> Raised("FetchError"), fetches |-> 2]
    ELSE IF ~isinstance_DataFrame(answer.value)
         THEN [raw_data |-> answer.value, ret |-> Raised("TypeError"), fetches |-> 1]
         ELSE [raw_data |-> answer.value, ret |-> Returned(None), fetches |-> 1]

\* obtain(): the stored value afterwards, how the call ended, and the number of
\* load_dataset calls it made.
obtain(stored, answer) ==
    IF answer.fetch = "raises"
    THEN [raw_data |-> stored, ret |-> Raised("FetchError"), fetches |-> 1]
    ELSE IF ~isinstance_DataFrame(answer.value)
         THEN [raw_data |-> answer.value, ret |-> Raised("TypeError"), fetches |-> 1]
         ELSE [raw_data |-> answer.value, ret |-> Returned(None), fetches |-> 1]

\* The raw_data property.
raw_data(stored) ==
    IF ~isinstance_DataFrame(stored) THEN Raised("TypeError") ELSE Returned(stored)

Obtain ==
    /\ imp_calls < MaxObtain
    /\ \E answer \in HubAnswers :
        LET r == obtain(imp_raw_data, answer)
        IN  /\ imp_env' = answer
            /\ imp_raw_data' = r.raw_data
            /\ imp_ret' = r.ret
            /\ imp_fetches' = imp_fetches + r.fetches
            /\ imp_last_ok' = IF r.ret.status = "returned" THEN answer.value ELSE imp_last_ok
    /\ imp_calls' = imp_calls + 1
    /\ imp_op' = "obtain"
    /\ UNCHANGED <<p_vars, ds_vars, pl_vars>>

ReadRawData ==
    /\ imp_op' = "raw_data"
    /\ imp_ret' = raw_data(imp_raw_data)
    /\ UNCHANGED <<imp_raw_data, imp_env, imp_fetches, imp_calls, imp_last_ok>>
    /\ UNCHANGED <<p_vars, ds_vars, pl_vars>>

----------------------------------------------------------------------------
(* TaskDataset *)

CleanColumnOrders == {<<"question", "target">>, <<"target", "question">>}
QuestionCells == {Str(<<"a">>), Str(<<"a", "b">>)}
TargetCells == {Str(<<"y">>), Str(<<"z">>)}
CleanRows ==
    { [c \in {"question", "target"} |-> IF c = "question" THEN q ELSE t] :
      q \in QuestionCells, t \in TargetCells }

\* Row labels a table may carry: the default range, or what row selection and
\* reordering leave behind.
IndexLabels(n) ==
    {RangeIndex(n), [i \in 1..n |-> n - i], [i \in 1..n |-> 2 * i + 1]}

CleanTables ==
    UNION { { DataFrame(cols, index, rows) :
              cols \in CleanColumnOrders,
              index \in IndexLabels(n),
              rows \in [1..n -> CleanRows] } : n \in 0..MaxDsRows }

\* DataFrame.iloc[index]: the row at a position; negative positions count from
\* the end; positions outside [-n, n) raise IndexError.
iloc(df, index) ==
    LET n == Len(df.rows)
    IN  IF index >= n \/ index < 0 - n THEN Raised("IndexError")
        ELSE IF index >= 0 THEN Returned(df.rows[index + 1])
        ELSE Returned(df.rows[n + index + 1])

\* Series[label]
series_get(series, label) ==
    IF label \in DOMAIN series THEN Returned(series[label]) ELSE Raised("KeyError")

\* TaskDataset.__len__
TaskDataset_len(data) == Returned(Len(data.rows))

\* DataFrame.loc[label]: the row carrying a label.
loc(df, label) ==
    IF \E i \in DOMAIN df.index : df.index[i] = label
    THEN Returned(df.rows[CHOOSE i \in DOMAIN df.index : df.index[i] = label])
    ELSE Raised("KeyError")

\* A __getitem__ that looks the row up by label instead of by position.
TaskDataset_getitem_by_label(data, index) ==
    LET row == loc(data, index)
    IN  IF row.status = "raised" THEN row
        ELSE LET q == series_get(row.value, "question")
                 t == series_get(row.value, "target")
             IN  IF q.status = "raised" THEN q
                 ELSE IF t.status = "raised" THEN t
                 ELSE Returned(<<q.value, t.value>>)

\* TaskDataset.__getitem__
TaskDataset_getitem(data, index) ==
    LET row == iloc(data, index)
    IN  IF row.status = "raised" THEN row
        ELSE LET q == series_get(row.value, "question")
                 t == series_get(row.value, "target")
             IN  IF q.status = "raised" THEN q
                 ELSE IF t.status = "raised" THEN t
                 ELSE Returned(<<q.value, t.value>>)

DatasetLen ==
    /\ ds_op' = "len"
    /\ ds_arg' = 0
    /\ ds_ret' = TaskDataset_len(ds_data)
    /\ UNCHANGED ds_data
    /\ UNCHANGED <<imp_vars, p_vars, pl_vars>>

DatasetGetItem ==
    /\ \E index \in (0 - MaxDsRows - 1)..(MaxDsRows + 1) :
        /\ ds_arg' = index
        /\ ds_ret' = TaskDataset_getitem(ds_data, index)
    /\ ds_op' = "getitem"
    /\ UNCHANGED ds_data
    /\ UNCHANGED <<imp_vars, p_vars, pl_vars>>
----------------------------------------------------------------------------
(* LLMPipeline.infer_sample *)

Chars == {"a", " "}
Questions == SeqsUpTo(Chars, MaxQuestion)
Samples == {<<q, <<"y">> >> : q \in Questions}

\* What tokenizer, generate and batch_decode produce for a prompt: generate
\* raises, or batch_decode(...)[0] is some text.
Generations ==
    {[generate |-> "raises", decoded |-> <<>>]}
        \cup {[generate |-> "ok", decoded |-> d] : d \in SeqsUpTo(Chars, MaxDecoded)}

\* Python's s[k:] for k >= 0.
slice_from(s, k) == IF k >= Len(s) THEN <<>> ELSE SubSeq(s, k + 1, Len(s))

\* An infer_sample that drops len(question) characters only.
infer_sample_keep_separator(sample, generation) ==
    IF generation.generate = "raises" THEN Raised("GenerationError")
    ELSE Returned(slice_from(generation.decoded, Len(sample[1])))

\* infer_sample(sample): sample[0] is the question.
infer_sample(sample, generation) ==
    IF generation.generate = "raises" THEN Raised("GenerationError")
    ELSE Returned(slice_from(generation.decoded, Len(sample[1]) + 1))

InferSample ==
    /\ \E sample \in Samples, generation \in Generations :
        /\ pl_sample' = sample
        /\ pl_env' = generation
        /\ pl_ret' = infer_sample(sample, generation)
    /\ UNCHANGED <<imp_vars, p_vars, ds_vars>>

----------------------------------------------------------------------------
(* Specifications: one per class, each starting right after construction *)

ImporterIdle ==
    /\ imp_raw_data = None
    /\ imp_op = "none"
    /\ imp_env = [fetch |-> "none", value |-> None]
    /\ imp_ret = NotCalled
    /\ imp_fetches = 0
    /\ imp_calls = 0
    /\ imp_last_ok = None

PreprocessorOver(raw) ==
    /\ p_raw_data = raw
    /\ p_data = None
    /\ p_op = "none"
    /\ p_ret = NotCalled
    /\ p_raw0 = raw
    /\ p_transforms = 0
    /\ p_first = NotCalled
    /\ p_first_at = 0

DatasetOver(data) ==
    /\ ds_data = data
    /\ ds_op = "none"
    /\ ds_arg = 0
    /\ ds_ret = NotCalled

PipelineIdle ==
    /\ pl_sample = <<<<>>, <<>>>>
    /\ pl_env = [generate |-> "none", decoded |-> <<>>]
    /\ pl_ret = NotCalled

EmptyRaw == DataFrame(<<"instruction", "input", "output", "text">>, <<>>, <<>>)
EmptyClean == DataFrame(<<"question", "target">>, <<>>, <<>>)

InitImporter ==
    ImporterIdle /\ PreprocessorOver(EmptyRaw) /\ DatasetOver(EmptyClean) /\ PipelineIdle
NextImporter == Obtain \/ ReadRawData
SpecImporter == InitImporter /\ [][NextImporter]_vars

InitPreprocessor ==
    /\ \E raw \in RawTables : PreprocessorOver(raw)
    /\ ImporterIdle /\ DatasetOver(EmptyClean) /\ PipelineIdle
NextPreprocessor == Analyze \/ Transform
SpecPreprocessor == InitPreprocessor /\ [][NextPreprocessor]_vars

InitDataset ==
    /\ \E data \in CleanTables : DatasetOver(data)
    /\ ImporterIdle /\ PreprocessorOver(EmptyRaw) /\ PipelineIdle
NextDataset == DatasetLen \/ DatasetGetItem
SpecDataset == InitDataset /\ [][NextDataset]_vars

InitPipeline ==
    ImporterIdle /\ PreprocessorOver(EmptyRaw) /\ DatasetOver(EmptyClean) /\ PipelineIdle
NextPipeline == InferSample
SpecPipeline == InitPipeline /\ [][NextPipeline]_vars

----------------------------------------------------------------------------
(* Properties *)

IsPrefix(p, s) == Len(p) <= Len(s) /\ SubSeq(s, 1, Len(p)) = p
IsEmptyCell(cell) == cell.na \/ cell.s = <<>>
SameOutcome(a, b) == a.status = b.status /\ a.value = b.value
RaisedWith(ret, e) == ret.status = "raised" /\ ret.value = e

\* C1: __getitem__(i) raises IndexError for every i >= n and every i < 0, and
\* returns no Sample for such an i.
C1_OutsideZeroToLenFails ==
    (ds_op = "getitem" /\ (ds_arg >= Len(ds_data.rows) \/ ds_arg < 0))
        => RaisedWith(ds_ret, "IndexError")

\* C2: __len__ returns the number of rows n, and for 0 <= i < n __getitem__(i)
\* returns the pair (question, target) of the row at position i, whatever the
\* row labels and the column order are.
C2_LenAndGetItemByPosition ==
    /\ ds_op = "len" =>
        ds_ret.status = "returned" /\ ds_ret.value = Len(ds_data.rows)
    /\ (ds_op = "getitem" /\ 0 <= ds_arg /\ ds_arg < Len(ds_data.rows)) =>
        /\ ds_ret.status = "returned"
        /\ ds_ret.value = << ds_data.rows[ds_arg + 1]["question"],
                             ds_data.rows[ds_arg + 1]["target"] >>

\* C2 witness: the last row of a three-row table whose labels are not the
\* positions and whose target column comes first has been retrieved.
C2_Witness ==
    /\ ds_op = "getitem" /\ ds_arg = 2 /\ Len(ds_data.rows) = 3
    /\ ds_data.index = <<2, 1, 0>>
    /\ ds_data.columns = <<"target", "question">>
    /\ ds_data.rows[1] # ds_data.rows[3]
    /\ ds_ret.status = "returned"

\* C3: while no obtain() has returned normally, reading raw_data raises
\* TypeError; once one has, raw_data returns the table that obtain() fetched.
C3_RawDataAfterSuccessfulObtain ==
    imp_op = "raw_data" =>
        IF imp_last_ok = None
        THEN RaisedWith(imp_ret, "TypeError")
        ELSE imp_ret.status = "returned" /\ imp_ret.value = imp_last_ok

\* C4: every obtain() call makes exactly one fetch; a failed fetch leaves the
\* call as an error, a conversion that is not a table leaves it as TypeError,
\* and the call returns normally only with a table stored.
C4_ObtainFetchesOnce ==
    /\ imp_fetches = imp_calls
    /\ imp_op = "obtain" =>
        /\ imp_env.fetch = "raises" => RaisedWith(imp_ret, "FetchError")
        /\ (imp_env.fetch = "ok" /\ ~isinstance_DataFrame(imp_env.value))
               => RaisedWith(imp_ret, "TypeError")
        /\ imp_ret.status = "returned" =>
               isinstance_DataFrame(imp_raw_data) /\ imp_raw_data = imp_env.value

\* C4 witness: a second obtain() whose fetch raised has ended as an error.
C4_Witness ==
    /\ imp_op = "obtain" /\ imp_calls = 2
    /\ imp_env.fetch = "raises"
    /\ imp_ret.status = "raised"

\* C5: for every RawTable with at least one row analyze() returns a report
\* whose sample count is the row count and whose column count is the column
\* count.
C5_AnalyzeCountsOnNonEmpty ==
    (p_op = "analyze" /\ Len(p_raw_data.rows) >= 1) =>
        /\ p_ret.status = "returned"
        /\ p_ret.value.dataset_number_of_samples = Len(p_raw_data.rows)
        /\ p_ret.value.dataset_columns = Len(p_raw_data.columns)

\* C6: after one transform() and after any further ones, every call having
\* returned normally, the CleanTable has exactly the columns question and
\* target, holding row for row the instruction and the output of the RawTable.
C6_TransformIdempotentColumns ==
    p_transforms >= 1 =>
        /\ p_op = "transform" => p_ret.status = "returned"
        /\ isinstance_DataFrame(p_data)
        /\ Len(p_data.columns) = 2
        /\ Range(p_data.columns) = {"question", "target"}
        /\ Len(p_data.rows) = Len(p_raw0.rows)
        /\ \A i \in DOMAIN p_data.rows :
            /\ DOMAIN p_data.rows[i] = {"question", "target"}
            /\ p_data.rows[i]["question"] = p_raw0.rows[i]["instruction"]
            /\ p_data.rows[i]["target"] = p_raw0.rows[i]["output"]

\* C6 witness: transform() has run twice on a three-row table whose columns
\* arrived in reverse order.
C6_Witness ==
    /\ p_op = "transform" /\ p_transforms = 2
    /\ p_raw0.columns = <<"text", "output", "input", "instruction">>
    /\ Len(p_raw0.rows) = 3
    /\ p_raw0.rows[1]["instruction"] # p_raw0.rows[2]["instruction"]
    /\ isinstance_DataFrame(p_data)

\* C7: when generation fails or produces no output, infer_sample returns a null
\* result instead of raising; otherwise it returns the prediction string.
C7_NullOnInferenceFailure ==
    pl_ret.status # "none" =>
        IF pl_env.generate = "raises" \/ pl_env.decoded = <<>>
        THEN pl_ret.status = "returned" /\ pl_ret.value = None
        ELSE pl_ret.status = "returned" /\ pl_ret.value # None

\* The prompt-echo assumption: the decoded output is the question, one
\* separator character, then a continuation.
PromptEcho ==
    /\ pl_ret.status # "none"
    /\ pl_env.generate = "ok"
    /\ Len(pl_env.decoded) >= Len(pl_sample[1]) + 1
    /\ IsPrefix(pl_sample[1], pl_env.decoded)

\* C8 as stated, for a question of at least one character (the empty text is a
\* prefix of every string): under the prompt-echo assumption infer_sample
\* returns the decoded output without its first len(question)+1 characters, and
\* the returned string never has the question as a verbatim prefix.
C8_NeverQuestionPrefix ==
    (PromptEcho /\ Len(pl_sample[1]) >= 1) =>
        /\ pl_ret.status = "returned"
        /\ Len(pl_ret.value) = Len(pl_env.decoded) - Len(pl_sample[1]) - 1
        /\ ~IsPrefix(pl_sample[1], pl_ret.value)

\* C8 amended: under the prompt-echo assumption infer_sample returns exactly the
\* continuation: question, separator and returned string make up the decoded
\* output again.  The returned string has the question as a prefix exactly when
\* the continuation itself starts with the question.
C8_ReturnsContinuation ==
    PromptEcho =>
        /\ pl_ret.status = "returned"
        /\ pl_sample[1] \o <<pl_env.decoded[Len(pl_sample[1]) + 1]>> \o pl_ret.value
               = pl_env.decoded
        /\ IsPrefix(pl_sample[1], pl_ret.value)
               <=> IsPrefix(pl_sample[1],
                            SubSeq(pl_env.decoded, Len(pl_sample[1]) + 2,
                                   Len(pl_env.decoded)))

\* C8 witness: the model echoed the question "a", a separator, and went on
\* with "a" again.
C8_Witness ==
    /\ PromptEcho
    /\ pl_sample[1] = <<"a">>
    /\ pl_env.decoded = <<"a", " ", "a", " ">>
    /\ pl_ret.status = "returned"
    /\ pl_ret.value = <<"a", " ">>

\* C9: no analyze() or transform() call changes the RawTable, analyze() changes
\* no field of the preprocessor, and every analyze() ends as the first one did,
\* whether or not transform() ran in between.
C9_RawTableFrame ==
    [][ /\ p_raw_data' = p_raw_data
        /\ p_op' = "analyze" => p_data' = p_data /\ SameOutcome(p_ret', p_first')
      ]_vars

\* C9 witness: analyze() returned a report before any transform() and again
\* after two of them.
C9_Witness ==
    /\ p_op = "analyze" /\ p_ret.status = "returned"
    /\ p_first.status = "returned" /\ p_first_at = 0
    /\ p_transforms = 2
    /\ isinstance_DataFrame(p_data)

\* Scenario A: three rows, one of them equal to an earlier row, one of them
\* with an empty instruction.
ScenarioA(df) ==
    /\ Len(df.rows) = 3
    /\ Cardinality({i \in 1..3 : \E j \in 1..(i - 1) : df.rows[j] = df.rows[i]}) = 1
    /\ Cardinality({i \in 1..3 : df.rows[i]["instruction"] = Str(<<>>)}) = 1

\* The statistics of a report that analyze() returned: duplicates are the rows
\* equal to an earlier row, the empty count is the number of cells that are
\* missing or the empty string, min/max length range over the instructions of
\* the rows without an empty cell.
AnalyzeStatisticsWhenReturned ==
    (p_op = "analyze" /\ p_ret.status = "returned") =>
        LET rows == p_raw_data.rows
            full == {i \in DOMAIN rows : \A c \in DOMAIN rows[i] : ~IsEmptyCell(rows[i][c])}
            dups == {i \in DOMAIN rows : \E j \in 1..(i - 1) : rows[j] = rows[i]}
            empties == {ic \in (DOMAIN rows) \X RawColumns : IsEmptyCell(rows[ic[1]][ic[2]])}
        IN  /\ p_ret.value.dataset_duplicates = Cardinality(dups)
            /\ p_ret.value.dataset_empty_rows = Cardinality(empties)
            /\ full # {}
            /\ p_ret.value.dataset_sample_min_len
                   = Min({Len(rows[i]["instruction"].s) : i \in full})
            /\ p_ret.value.dataset_sample_max_len
                   = Max({Len(rows[i]["instruction"].s) : i \in full})

\* C10: analyze() reports as duplicates the rows equal to an earlier row, as
\* empty count the cells that are missing or the empty string, and as min/max
\* length the shortest and longest instruction among the rows without an empty
\* cell; a scenario-A table reports duplicates = 1 and empty count >= 1.
C10_AnalyzeStatistics ==
    /\ AnalyzeStatisticsWhenReturned
    /\ (p_op = "analyze" /\ ScenarioA(p_raw_data)) =>
        /\ p_ret.status = "returned"
        /\ p_ret.value.dataset_duplicates = 1
        /\ p_ret.value.dataset_empty_rows >= 1

====
